---------------------------- MODULE Spec2Model ----------------------------
(***************************************************************************)
(* State-machine model of the broadcast server: the RoomManager registry   *)
(* (src/room_manager.py) and the per-connection websocket handler          *)
(* (src/main.py, websocket_endpoint).                                      *)
(*                                                                         *)
(* Every handler is a coroutine on one event loop: it runs atomically from *)
(* one await that really suspends (transport accept / close / send /       *)
(* receive) to the next.  The Redis client is the blocking redis.Redis, so *)
(* a call into the store is not a suspension point.  Each action below is  *)
(* one such atomic segment: the completion of the await the handler is     *)
(* suspended on, followed by all the code up to the next await.            *)
(***************************************************************************)
EXTENDS Integers, Sequences, FiniteSets, TLC

(***************************************************************************)
(* Bounds of the model.                                                    *)
(***************************************************************************)
MaxConns == 2      \* websocket connections that ever arrive
MaxFrames == 1     \* inbound frames processed in total
MaxQuota == 2      \* largest connection quota a configuration sets

(***************************************************************************)
(* Configuration (src/config.py, Settings).  Every setting is read from    *)
(* the environment (env_prefix BROADCAST_) once, at startup; the model     *)
(* draws the two quotas from 1..MaxQuota so that they are reached, and     *)
(* keeps them in the variable settings, which no action changes.           *)
(***************************************************************************)
Settings == [max_connections_per_room : 1..MaxQuota,
             max_connections_per_user : 1..MaxQuota]
message_history_length == 2
MaxIdLength == 50
MaxMessageLength == 1000

Conns == 1..MaxConns

None == "None"                     \* Python's None
RoomIds == {"r1", "r2"}
UserIds == {"u1", "u2"}
LongId == "xxxxxxxxxxxxxxxxxxxxxxxxxxxxxxxxxxxxxxxxxxxxxxxxxxx"   \* 51 characters
\* the (room_id, user_id) paths connection c can open: the valid ones, and
\* empty, blank and oversized ids.  Ids are interchangeable, so the first
\* connection's valid ids are named r1 and u1.
BadJoinIds == {<<"", "u1">>, <<" ", "u1">>, <<LongId, "u1">>, <<"r1", "">>, <<"r1", LongId>>}
JoinIds(c) == (IF c = 1 THEN {<<"r1", "u1">>} ELSE RoomIds \X UserIds) \cup BadJoinIds
\* what _generate_room_code can return (two of the 36^5 codes)
Codes == {"AAAAA", "BBBBB"}
\* what a client can put in the ?code= query parameter
SuppliedCodes == {None, ""} \cup Codes \cup {"aaaaa"}

(***************************************************************************)
(* Python dict and list primitives.                                        *)
(***************************************************************************)
Has(d, k) == k \in DOMAIN d
Get(d, k, default) == IF k \in DOMAIN d THEN d[k] ELSE default
Put(d, k, v) == [x \in (DOMAIN d) \cup {k} |-> IF x = k THEN v ELSE d[x]]
Del(d, k) == [x \in (DOMAIN d) \ {k} |-> d[x]]
EmptyDict == [x \in {} |-> None]

In(x, s) == \E i \in 1..Len(s) : s[i] = x
Range(s) == {s[i] : i \in 1..Len(s)}
\* list.remove(x): drops the first occurrence
Remove(s, x) ==
    LET i == CHOOSE j \in 1..Len(s) : s[j] = x /\ \A k \in 1..(j - 1) : s[k] # x
    IN  SubSeq(s, 1, i - 1) \o SubSeq(s, i + 1, Len(s))
RECURSIVE Reverse(_)
Reverse(s) == IF s = << >> THEN << >> ELSE Append(Reverse(Tail(s)), Head(s))
Max(a, b) == IF a >= b THEN a ELSE b
\* s[:n]
Prefix(s, n) == SubSeq(s, 1, IF Len(s) < n THEN Len(s) ELSE n)

\* str.strip() on the ids the model draws: only the all-blank ones change
strip(s) == IF s \in {"", " "} THEN "" ELSE s

(***************************************************************************)
(* schemas.Message.  id stands for the uuid4: the connection whose handler *)
(* built the message and which of its messages it is.                      *)
(***************************************************************************)
Message(origin, tag, sender, type, content, recipient) ==
    [id |-> <<origin, tag>>, sender |-> sender, type |-> type,
     content |-> content, recipient |-> recipient]

VARIABLES
    settings,   \* config.settings, fixed at startup
    manager,    \* the RoomManager instance: rooms, user_connections, ...
    redis,      \* the external store: reachable or not, and what it holds
    sess,       \* per connection: the handler's position and locals
    alive,      \* per connection: whether the client's transport is still up
    inbox,      \* per connection: the frames delivered to the client
    nframes     \* inbound frames processed so far

vars == <<settings, manager, redis, sess, alive, inbox, nframes>>


(***************************************************************************)
(* RoomManager (src/room_manager.py).  m is the manager's attributes, rd   *)
(* the external store.  Every operator returns what the method leaves      *)
(* behind; "raised" says that it ended by raising.                         *)
(***************************************************************************)
\* a call on the Redis client succeeds: there is a client and the store answers
RedisOk(m, rd) == m.redis_client /\ rd.up

get_room_code(m, rd, room_id) ==
    IF RedisOk(m, rd)
    THEN Get(rd.codes, room_id, None)
    ELSE Get(m.room_codes, room_id, None)     \* no client, or the except branch

set_room_code(m, rd, room_id, new_code) ==
    IF RedisOk(m, rd)
    THEN [manager |-> m, redis |-> [rd EXCEPT !.codes = Put(@, room_id, new_code)]]
    ELSE [manager |-> [m EXCEPT !.room_codes = Put(@, room_id, new_code)], redis |-> rd]

is_code_valid(m, rd, room_id, code) ==
    IF code \in {None, ""}
    THEN FALSE
    ELSE LET stored_code == get_room_code(m, rd, room_id)
         IN  stored_code # None /\ stored_code = code

\* (mutant of connect_check: the quotas compared with > instead of >=)
connect_check_off_by_one(m, room_id, user_id) ==
    IF Len(Get(m.rooms, room_id, << >>)) > settings.max_connections_per_room THEN 4003
    ELSE IF Len(Get(m.user_connections, user_id, << >>)) > settings.max_connections_per_user
    THEN 4004
    ELSE 0

\* connect, lines 93-103: 0 when both quota checks pass, else the close code
connect_check(m, room_id, user_id) ==
    IF Len(Get(m.rooms, room_id, << >>)) >= settings.max_connections_per_room THEN 4003
    ELSE IF Len(Get(m.user_connections, user_id, << >>)) >= settings.max_connections_per_user
    THEN 4004
    ELSE 0

\* connect, lines 107-121: what runs once websocket.accept() has returned
connect_register(m, websocket, room_id, user_id) ==
    LET rooms0 == IF Has(m.rooms, room_id) THEN m.rooms ELSE Put(m.rooms, room_id, << >>)
        counts0 == IF Has(m.rooms, room_id) THEN m.connection_counts
                   ELSE Put(m.connection_counts, room_id, 0)
        users0 == IF Has(m.user_connections, user_id) THEN m.user_connections
                  ELSE Put(m.user_connections, user_id, << >>)
        ucounts0 == IF Has(m.user_connections, user_id) THEN m.user_connection_counts
                    ELSE Put(m.user_connection_counts, user_id, 0)
    IN  [m EXCEPT !.rooms = Put(rooms0, room_id, Append(rooms0[room_id], websocket)),
                  !.connection_counts = Put(counts0, room_id, counts0[room_id] + 1),
                  !.user_connections = Put(users0, user_id, Append(users0[user_id], websocket)),
                  !.user_connection_counts = Put(ucounts0, user_id, ucounts0[user_id] + 1)]

\* disconnect, lines 130-147: the room index
disconnect_room(m, websocket, room_id) ==
    IF ~(Has(m.rooms, room_id) /\ In(websocket, m.rooms[room_id]))
    THEN [manager |-> m, raised |-> FALSE]
    ELSE LET left == Remove(m.rooms[room_id], websocket)
         IN  IF ~Has(m.connection_counts, room_id)
             THEN \* line 133 raises KeyError after line 132 removed the connection
                  [manager |-> [m EXCEPT !.rooms = Put(@, room_id, left)], raised |-> TRUE]
             ELSE IF left = << >>
             THEN [manager |-> [m EXCEPT !.rooms = Del(@, room_id),
                                         !.connection_counts = Del(@, room_id),
                                         !.room_codes = Del(@, room_id)],
                   raised |-> FALSE]
             ELSE [manager |-> [m EXCEPT !.rooms = Put(@, room_id, left),
                                         !.connection_counts =
                                             Put(@, room_id, Max(0, @[room_id] - 1))],
                   raised |-> FALSE]

\* disconnect, lines 149-158: the user index
disconnect_user(m, websocket, user_id) ==
    IF ~(Has(m.user_connections, user_id) /\ In(websocket, m.user_connections[user_id]))
    THEN [manager |-> m, raised |-> FALSE]
    ELSE LET left == Remove(m.user_connections[user_id], websocket)
         IN  IF ~Has(m.user_connection_counts, user_id)
             THEN [manager |-> [m EXCEPT !.user_connections = Put(@, user_id, left)],
                   raised |-> TRUE]
             ELSE IF left = << >>
             THEN [manager |-> [m EXCEPT !.user_connections = Del(@, user_id),
                                         !.user_connection_counts = Del(@, user_id)],
                   raised |-> FALSE]
             ELSE [manager |-> [m EXCEPT !.user_connections = Put(@, user_id, left),
                                         !.user_connection_counts =
                                             Put(@, user_id, Max(0, @[user_id] - 1))],
                   raised |-> FALSE]

disconnect(m, websocket, room_id, user_id) ==
    LET r == disconnect_room(m, websocket, room_id)
    IN  IF r.raised THEN r ELSE disconnect_user(r.manager, websocket, user_id)

\* the loop "for dead_connection in dead_connections: if ... in list: list.remove(...)"
RECURSIVE RemoveDead(_, _)
RemoveDead(list, dead_connections) ==
    IF dead_connections = << >> THEN list
    ELSE RemoveDead(IF In(Head(dead_connections), list)
                    THEN Remove(list, Head(dead_connections)) ELSE list,
                    Tail(dead_connections))

\* (mutant of broadcast_cleanup: the emptied room is not deleted)
broadcast_cleanup_keeps_empty(m, room_id, dead_connections) ==
    IF ~Has(m.rooms, room_id)
    THEN [manager |-> m, raised |-> TRUE]
    ELSE [manager |-> [m EXCEPT !.rooms =
                           Put(@, room_id, RemoveDead(m.rooms[room_id], dead_connections))],
          raised |-> FALSE]

\* broadcast_to_room, lines 177-189: what runs after the last send of the pass
broadcast_cleanup(m, room_id, dead_connections) ==
    IF ~Has(m.rooms, room_id)
    THEN [manager |-> m, raised |-> TRUE]       \* self.rooms[room_id]: KeyError
    ELSE LET left == RemoveDead(m.rooms[room_id], dead_connections)
         IN  IF left = << >>
             THEN [manager |-> [m EXCEPT !.rooms = Del(@, room_id),
                                         !.room_codes = Del(@, room_id)],
                   raised |-> FALSE]
             ELSE [manager |-> [m EXCEPT !.rooms = Put(@, room_id, left)],
                   raised |-> FALSE]

\* send_personal_message, lines 248-258
personal_cleanup(m, recipient_id, dead_connections) ==
    IF ~Has(m.user_connections, recipient_id)
    THEN [manager |-> m, raised |-> TRUE]       \* self.user_connections[recipient_id]
    ELSE LET left == RemoveDead(m.user_connections[recipient_id], dead_connections)
         IN  IF left = << >>
             THEN [manager |-> [m EXCEPT !.user_connections = Del(@, recipient_id),
                                         !.user_connection_counts = Del(@, recipient_id)],
                   raised |-> FALSE]
             ELSE [manager |-> [m EXCEPT !.user_connections = Put(@, recipient_id, left)],
                   raised |-> FALSE]

\* store_message: lpush + ltrim, or insert(0, ...) + [:length]
store_message_uncapped(m, rd, room_id, message) ==
    IF RedisOk(m, rd)
    THEN [manager |-> m,
          redis |-> [rd EXCEPT !.history =
              Put(@, room_id, <<message>> \o Get(@, room_id, << >>))]]
    ELSE [manager |-> [m EXCEPT !.message_history =
              Put(@, room_id, <<message>> \o Get(@, room_id, << >>))],
          redis |-> rd]

store_message(m, rd, room_id, message) ==
    IF RedisOk(m, rd)
    THEN [manager |-> m,
          redis |-> [rd EXCEPT !.history =
              Put(@, room_id, Prefix(<<message>> \o Get(@, room_id, << >>),
                                     message_history_length))]]
    ELSE [manager |-> [m EXCEPT !.message_history =
              Put(@, room_id, Prefix(<<message>> \o Get(@, room_id, << >>),
                                     message_history_length))],
          redis |-> rd]

\* get_message_history: no try/except around the Redis call
get_message_history_unreversed(m, rd, room_id) ==
    IF m.redis_client
    THEN IF rd.up
         THEN [history |-> Get(rd.history, room_id, << >>), raised |-> FALSE]
         ELSE [history |-> << >>, raised |-> TRUE]
    ELSE [history |-> Get(m.message_history, room_id, << >>), raised |-> FALSE]

get_message_history(m, rd, room_id) ==
    IF m.redis_client
    THEN IF rd.up
         THEN [history |-> Reverse(Get(rd.history, room_id, << >>)), raised |-> FALSE]
         ELSE [history |-> << >>, raised |-> TRUE]
    ELSE [history |-> Reverse(Get(m.message_history, room_id, << >>)), raised |-> FALSE]


(***************************************************************************)
(* websocket_endpoint (src/main.py).  A world w is what one atomic segment *)
(* of the handler of connection c reads and writes: the manager, the       *)
(* store, and the handler's own position and locals (w.s).                 *)
(*                                                                         *)
(* pc: idle (not arrived), close4000 / close (suspended in                 *)
(* websocket.close), accept (suspended in websocket.accept, inside         *)
(* connect), send (suspended in a send of a broadcast_to_room or           *)
(* send_personal_message pass), replay (suspended in a send of the history *)
(* loop), recv (suspended in receive_text), errsend (suspended in the send *)
(* of an inline error frame), closed (the handler has returned).           *)
(***************************************************************************)
NoPass == [kind |-> None, key |-> None, snapshot |-> << >>, idx |-> 0,
           dead_connections |-> << >>, sent_count |-> 0, tried |-> << >>,
           message |-> << >>, after |-> None]

IdleSession == [pc |-> "idle", room_id |-> None, user_id |-> None, code |-> None,
                close_code |-> 0, is_new_room |-> FALSE, existing_code |-> None,
                pass |-> NoPass, history |-> << >>, broadcast_msg |-> << >>,
                error |-> None, caught |-> None, escaped |-> FALSE,
                \* what the last send_personal_message call returned ("True" / "False")
                returned |-> None]

ErrorFrame(content) == [type |-> "error", content |-> content]

\* the handler has returned: its locals are gone, the close code stays on record
Closed(s) == [IdleSession EXCEPT !.pc = "closed", !.close_code = s.close_code]

\* main.py, lines 329-334: the except branch of the finally block; nothing
\* gets out of it (escaped stays FALSE)
FinallyExcept(w, c) ==
    [w EXCEPT !.manager = disconnect(w.manager, c, w.s.room_id, w.s.user_id).manager,
              !.s = Closed(w.s)]

\* main.py, lines 306-311: except Exception around one frame
\* (mutant of FrameExcept: no per-frame handler, the exception ends the session)
FrameExceptUncaught(w, exception) == [w EXCEPT !.s = Closed(w.s)]

FrameExcept(w, exception) ==
    [w EXCEPT !.s.pc = "errsend", !.s.error = "Failed to process message",
              !.s.caught = exception, !.s.broadcast_msg = << >>]

RECURSIVE BeginBroadcast(_, _, _, _, _), Resume(_, _, _, _), Finally(_, _)

\* the loop of a pass is over: clean up, then go on in the caller
EndPass(w, c) ==
    LET p == w.s.pass
        r == IF p.kind = "room"
             THEN broadcast_cleanup(w.manager, p.key, p.dead_connections)
             ELSE personal_cleanup(w.manager, p.key, p.dead_connections)
        \* send_personal_message, line 261: return sent_count > 0
        returned == IF p.kind = "room" THEN w.s.returned
                    ELSE IF r.raised THEN None
                    ELSE IF p.sent_count > 0 THEN "True" ELSE "False"
    IN  Resume([w EXCEPT !.manager = r.manager, !.s.pass = NoPass,
                         !.s.returned = returned], c, p.after, r.raised)

\* broadcast_to_room, lines 162-172: up to the first send
BeginBroadcast(w, c, room_id, message, after) ==
    IF ~Has(w.manager.rooms, room_id)
    THEN Resume(w, c, after, FALSE)                       \* warning, return
    ELSE LET p == [kind |-> "room", key |-> room_id,
                   snapshot |-> w.manager.rooms[room_id], idx |-> 1,
                   dead_connections |-> << >>, sent_count |-> 0, tried |-> << >>,
                   message |-> message, after |-> after]
         IN  IF p.snapshot = << >>
             THEN EndPass([w EXCEPT !.s.pass = p], c)
             ELSE [w EXCEPT !.s.pc = "send", !.s.pass = p]

\* (mutant of Finally: the notice is broadcast without the disconnect)
FinallyWithoutDisconnect(w, c) ==
    BeginBroadcast(w, c, w.s.room_id,
                   Message(c, "left", "System", "user_left", w.s.user_id, None), "end")

\* main.py, lines 320-334: the finally block
Finally(w, c) ==
    LET d == disconnect(w.manager, c, w.s.room_id, w.s.user_id)
        left_message == Message(c, "left", "System", "user_left", w.s.user_id, None)
    IN  IF d.raised
        THEN FinallyExcept([w EXCEPT !.manager = d.manager], c)
        ELSE BeginBroadcast([w EXCEPT !.manager = d.manager], c, w.s.room_id,
                            left_message, "end")

\* main.py, lines 234-240
JoinBroadcast(w, c) ==
    BeginBroadcast(w, c, w.s.room_id,
                   Message(c, "join", "System", "user_joined", w.s.user_id, None), "loop")

\* main.py, lines 229-232: read the history, start replaying it
\* (mutant of History: the join notice is broadcast without any replay)
HistorySkipped(w, c) == JoinBroadcast(w, c)

History(w, c) ==
    LET h == get_message_history(w.manager, w.redis, w.s.room_id)
    IN  IF h.raised THEN Finally(w, c)                    \* except Exception, line 318
        ELSE IF h.history = << >> THEN JoinBroadcast(w, c)
        ELSE [w EXCEPT !.s.pc = "replay", !.s.history = h.history]

\* where the handler goes on once a pass has returned (or raised)
Resume(w, c, after, raised) ==
    CASE after = "end" ->        \* the user_left broadcast of the finally block
            IF raised
            THEN FinallyExcept(w, c)
            ELSE [w EXCEPT !.s = Closed(w.s)]
      [] after = "loop" ->       \* the user_joined broadcast, line 240
            IF raised THEN Finally(w, c) ELSE [w EXCEPT !.s.pc = "recv"]
      [] after = "history" ->    \* the creation message, line 227
            IF raised THEN Finally(w, c) ELSE History(w, c)
      [] after \in {"store", "store_text"} ->   \* a chat broadcast, lines 290-291, 303-304
            IF raised
            THEN IF after = "store"
                 THEN FrameExcept(w, "KeyError")           \* raised inside the try of line 255
                 ELSE \* raised inside the except clause of line 293: line 306 does
                      \* not apply, line 315 catches, the finally block runs
                      Finally([w EXCEPT !.s.broadcast_msg = << >>], c)
            ELSE LET st == store_message(w.manager, w.redis, w.s.room_id, w.s.broadcast_msg)
                 IN  [w EXCEPT !.manager = st.manager, !.redis = st.redis, !.s.pc = "recv",
                               !.s.broadcast_msg = << >>]
      [] after = "recv" ->       \* a private message, line 279
            IF raised
            THEN FrameExcept(w, "KeyError")
            ELSE [w EXCEPT !.s.pc = "recv"]
      [] after = "upload" ->     \* the file notice of upload_file, line 112
            IF raised
            THEN [w EXCEPT !.s = [Closed(w.s) EXCEPT !.returned = "500"]]
            ELSE [w EXCEPT !.s = [Closed(w.s) EXCEPT !.returned = "uploaded"]]

\* send_personal_message, lines 232-242: up to the first send
BeginPersonal(w, c, message, recipient_id, after) ==
    IF ~Has(w.manager.user_connections, recipient_id)
    THEN Resume([w EXCEPT !.s.returned = "False"], c, after, FALSE)   \* warning, return False
    ELSE LET p == [kind |-> "user", key |-> recipient_id,
                   snapshot |-> w.manager.user_connections[recipient_id], idx |-> 1,
                   dead_connections |-> << >>, sent_count |-> 0, tried |-> << >>,
                   message |-> message, after |-> after]
         IN  IF p.snapshot = << >>
             THEN EndPass([w EXCEPT !.s.pass = p], c)
             ELSE [w EXCEPT !.s.pc = "send", !.s.pass = p, !.s.returned = None]

\* main.py, lines 193-201
InvalidIds(room_id, user_id) ==
    \/ strip(room_id) = "" \/ strip(user_id) = ""
    \/ Len(room_id) > MaxIdLength \/ Len(user_id) > MaxIdLength

\* main.py, lines 193-218 and connect, lines 93-105: from the arrival of the
\* connection to the first await (websocket.close or websocket.accept).
\* new_code is what _generate_room_code draws if it is called.
JoinSegment(w, c, room_id, user_id, code, new_code) ==
    LET s0 == [w.s EXCEPT !.room_id = room_id, !.user_id = user_id, !.code = code]
    IN  IF InvalidIds(room_id, user_id)
        THEN [w EXCEPT !.s = [w.s EXCEPT !.pc = "close4000", !.close_code = 4000]]
        ELSE
        LET existing_code == get_room_code(w.manager, w.redis, room_id)
        IN  IF existing_code \notin {None, ""}
                 /\ ~is_code_valid(w.manager, w.redis, room_id, code)
            THEN [w EXCEPT !.s = [s0 EXCEPT !.pc = "close", !.close_code = 4001]]
            ELSE
            LET is_new_room == existing_code \in {None, ""}
                st == IF is_new_room
                      THEN set_room_code(w.manager, w.redis, room_id, new_code)
                      ELSE [manager |-> w.manager, redis |-> w.redis]
                s1 == [s0 EXCEPT !.is_new_room = is_new_room,
                                 !.existing_code = IF is_new_room THEN new_code
                                                   ELSE existing_code]
                k == connect_check(st.manager, room_id, user_id)
            IN  [manager |-> st.manager, redis |-> st.redis,
                 s |-> IF k # 0
                       THEN [s1 EXCEPT !.pc = "close", !.close_code = k]
                       ELSE [s1 EXCEPT !.pc = "accept"]]

\* connect, lines 107-125, then main.py, lines 220-232
AcceptSegment(w, c) ==
    LET w1 == [w EXCEPT !.manager = connect_register(w.manager, c, w.s.room_id, w.s.user_id),
                        \* code, is_new_room and existing_code are not read again
                        !.s.code = None, !.s.is_new_room = FALSE,
                        !.s.existing_code = None]
        creation_message == Message(c, "create", "System", "system_info",
                                    <<w.s.room_id, w.s.existing_code>>, None)
    IN  IF w.s.is_new_room
        THEN BeginPersonal(w1, c, creation_message, w.s.user_id, "history")
        ELSE History(w1, c)

(***************************************************************************)
(* Inbound frames (websocket.receive_text).                                *)
(***************************************************************************)
\* plain text of exactly MaxMessageLength characters, and of one more
FullText == "xxxxxxxxxxxxxxxxxxxxxxxxxxxxxxxxxxxxxxxxxxxxxxxxxxxxxxxxxxxxxxxxxxxxxxxxxxxxxxxxxxxxxxxxxxxxxxxxxxxxxxxxxxxxxxxxxxxxxxxxxxxxxxxxxxxxxxxxxxxxxxxxxxxxxxxxxxxxxxxxxxxxxxxxxxxxxxxxxxxxxxxxxxxxxxxxxxxxxxxxxxxxxxxxxxxxxxxxxxxxxxxxxxxxxxxxxxxxxxxxxxxxxxxxxxxxxxxxxxxxxxxxxxxxxxxxxxxxxxxxxxxxxxxxxxxxxxxxxxxxxxxxxxxxxxxxxxxxxxxxxxxxxxxxxxxxxxxxxxxxxxxxxxxxxxxxxxxxxxxxxxxxxxxxxxxxxxxxxxxxxxxxxxxxxxxxxxxxxxxxxxxxxxxxxxxxxxxxxxxxxxxxxxxxxxxxxxxxxxxxxxxxxxxxxxxxxxxxxxxxxxxxxxxxxxxxxxxxxxxxxxxxxxxxxxxxxxxxxxxxxxxxxxxxxxxxxxxxxxxxxxxxxxxxxxxxxxxxxxxxxxxxxxxxxxxxxxxxxxxxxxxxxxxxxxxxxxxxxxxxxxxxxxxxxxxxxxxxxxxxxxxxxxxxxxxxxxxxxxxxxxxxxxxxxxxxxxxxxxxxxxxxxxxxxxxxxxxxxxxxxxxxxxxxxxxxxxxxxxxxxxxxxxxxxxxxxxxxxxxxxxxxxxxxxxxxxxxxxxxxxxxxxxxxxxxxxxxxxxxxxxxxxxxxxxxxxxxxxxxxxxxxxxxxxxxxxxxxxxxxxxxxxxxxxxxxxxxxxxxxxxxxxxxxxxxxxxxxxxxxxxxxxxxxxxxxxxxxxxxxxxxxxxxxxxxxxxxxxxxxxxxxxxxxxxxxxxxxxxxxxxxxxxxxxxxxxxxxxxxxxxxxxxxxxxxxxxxxxxxxxxxxxxxxxxxxxxxxxxxxxxxxxxxxxxxxxxxxxxxxxxxxxxxxxxxxxxxxxxxxxxxxxxxxxxxxxxxxxxxx"
LongText == FullText \o "x"

Frames == {[kind |-> "text", content |-> FullText],
           [kind |-> "text", content |-> LongText],
           [kind |-> "text", content |-> " "],
           [kind |-> "chat_message", content |-> "hi"],
           [kind |-> "chat_message", content |-> " "]}
          \cup {[kind |-> "private_message", recipient |-> u, content |-> "secret"] :
                    u \in UserIds}

\* further shapes of frame: text that is not JSON, JSON that is not an object
\* (value), objects of another type or of none (object), a chat_message whose
\* content is a number, and a private_message without recipient
Shapes == {[kind |-> "text", content |-> "{bad"],
           [kind |-> "value", content |-> "42"],
           [kind |-> "value", content |-> "[1]"],
           [kind |-> "object", content |-> "{\"type\": \"ping\", \"content\": \"hi\"}"],
           [kind |-> "object", content |-> "{\"content\": \"hi\"}"],
           [kind |-> "bad_chat_message",
            content |-> "{\"type\": \"chat_message\", \"content\": 5}"],
           [kind |-> "private_message", recipient |-> "", content |-> "secret"]}

\* raw_data: the text of the frame as it arrives (json.dumps for the objects)
Raw(frame) ==
    CASE frame.kind \in {"text", "value", "object", "bad_chat_message"} -> frame.content
      [] frame.kind = "chat_message" ->
            "{\"type\": \"chat_message\", \"content\": \"" \o frame.content \o "\"}"
      [] frame.kind = "private_message" ->
            "{\"type\": \"private_message\", \"recipient\": \"" \o frame.recipient
                \o "\", \"content\": \"" \o frame.content \o "\"}"

\* main.py, lines 247-311: one frame, up to the next await
\* (mutant of TooLong: a frame of exactly the maximum length is refused)
TooLongInclusive(raw_data) == Len(raw_data) >= MaxMessageLength

\* main.py, line 248
TooLong(raw_data) == Len(raw_data) > MaxMessageLength

TooLongError == "Message too long (max 1000 characters)"

FrameSegment(w, c, frame, n) ==
    IF TooLong(Raw(frame))
    THEN [w EXCEPT !.s.pc = "errsend", !.s.error = TooLongError]
    ELSE IF frame.kind = "value"
    THEN FrameExcept(w, "AttributeError")      \* json_data.get, line 261: not a dict
    ELSE IF frame.kind = "object"
    THEN w                                     \* neither branch applies, no else
    ELSE IF frame.kind = "bad_chat_message"
    THEN FrameExcept(w, "AttributeError")      \* .strip(), line 282: not a str
    ELSE IF frame.kind = "private_message"
    THEN LET recipient == strip(frame.recipient)
             content == strip(frame.content)
         IN  IF recipient = "" \/ content = ""
             THEN [w EXCEPT !.s.pc = "errsend",
                            !.s.error = "Private message requires recipient and content"]
             ELSE BeginPersonal(w, c, Message(c, n, w.s.user_id, "private_message",
                                              content, recipient),
                                recipient, "recv")
    ELSE LET content == strip(frame.content)
         IN  IF content = ""
             THEN w
             ELSE LET broadcast_msg == Message(c, n, w.s.user_id, "chat_message",
                                               content, None)
                  IN  BeginBroadcast([w EXCEPT !.s.broadcast_msg = broadcast_msg], c,
                                     w.s.room_id, broadcast_msg,
                                     IF frame.kind = "text" THEN "store_text" ELSE "store")

(***************************************************************************)
(* The transport.  A send to a connection raises once the client is gone   *)
(* or the connection's handler has returned (the socket is then closed).   *)
(***************************************************************************)
Deliverable(t) == alive[t] /\ sess[t].pc # "closed"

\* (mutant of PassTarget: a room pass walks the live list, not the copy)
PassTargetLive(m, p) ==
    IF p.kind = "room" /\ p.idx <= Len(Get(m.rooms, p.key, << >>))
    THEN m.rooms[p.key][p.idx]
    ELSE p.snapshot[p.idx]

\* the connection a pass is sending to: an element of the snapshot list[:]
PassTarget(m, p) == p.snapshot[p.idx]

World(c) == [manager |-> manager, redis |-> redis, s |-> sess[c]]

\* install the outcome of a segment of c's handler
Install(c, w) ==
    /\ manager' = w.manager
    /\ redis' = w.redis
    /\ sess' = [sess EXCEPT ![c] = w.s]

\* RoomManager.__init__: client says whether _init_redis reached the store
Startup(client) ==
    /\ manager = [rooms |-> EmptyDict, user_connections |-> EmptyDict,
                  message_history |-> EmptyDict, room_codes |-> EmptyDict,
                  connection_counts |-> EmptyDict,
                  user_connection_counts |-> EmptyDict,
                  redis_client |-> client]
    /\ redis = [up |-> client, codes |-> EmptyDict, history |-> EmptyDict]
    /\ sess = [c \in Conns |-> IdleSession]
    /\ alive = [c \in Conns |-> TRUE]
    /\ inbox = [c \in Conns |-> << >>]
    /\ nframes = 0

\* the store was not reachable at startup: the in-process fallback is selected
Init ==
    /\ settings \in Settings
    /\ Startup(FALSE)

\* the store was reachable at startup: the Redis client is selected
InitRedis ==
    /\ settings = [max_connections_per_room |-> MaxQuota,
                   max_connections_per_user |-> MaxQuota]
    /\ Startup(TRUE)

\* Room r1 has lived before: connections that are closed by now (Earlier
\* stands for them) stored k chat messages in it, k up to the cap, and left.
\* The in-process history of a room outlives the room; its code does not.
Earlier == 0
EarlierMessage(i) == Message(Earlier, i, "u2", "chat_message", "hi", None)
RECURSIVE EarlierHistory(_)
EarlierHistory(k) ==
    IF k = 0 THEN << >> ELSE <<EarlierMessage(k)>> \o EarlierHistory(k - 1)

InitHistory ==
    /\ settings = [max_connections_per_room |-> MaxQuota,
                   max_connections_per_user |-> MaxQuota]
    /\ \E k \in 0..message_history_length :
          manager = [rooms |-> EmptyDict, user_connections |-> EmptyDict,
                     message_history |-> IF k = 0 THEN EmptyDict
                                         ELSE Put(EmptyDict, "r1", EarlierHistory(k)),
                     room_codes |-> EmptyDict,
                     connection_counts |-> EmptyDict,
                     user_connection_counts |-> EmptyDict,
                     redis_client |-> FALSE]
    /\ redis = [up |-> FALSE, codes |-> EmptyDict, history |-> EmptyDict]
    /\ sess = [c \in Conns |-> IdleSession]
    /\ alive = [c \in Conns |-> TRUE]
    /\ inbox = [c \in Conns |-> << >>]
    /\ nframes = 0

\* upload_file, lines 54-129, for a request that passes validation: the file
\* is written and the notice is broadcast to the room; nothing is stored
UploadSegmentStoring(w, c, room_id, user_id) ==
    LET notice == Message(c, "file", "System", "file_shared", user_id, None)
        st == store_message(w.manager, w.redis, room_id, notice)
    IN  BeginBroadcast([w EXCEPT !.manager = st.manager, !.redis = st.redis], c,
                       room_id, notice, "upload")

UploadSegment(w, c, room_id, user_id) ==
    BeginBroadcast(w, c, room_id,
                   Message(c, "file", "System", "file_shared", user_id, None), "upload")

\* a client posts a file to /upload/{room_id}/{user_id}; the request takes one
\* of the server's request slots instead of a WebSocket
Upload(c) ==
    /\ sess[c].pc = "idle"
    /\ \E room_id \in RoomIds, user_id \in UserIds :
          Install(c, UploadSegment(World(c), c, room_id, user_id))
    /\ UNCHANGED <<settings, alive, inbox, nframes>>

\* a client opens /ws/{room_id}/{user_id}?code=...
Join(c) ==
    /\ sess[c].pc = "idle"
    /\ \A d \in Conns : d < c => sess[d].pc # "idle"
    /\ \E ids \in JoinIds(c), code \in SuppliedCodes, new_code \in Codes :
          Install(c, JoinSegment(World(c), c, ids[1], ids[2], code, new_code))
    /\ UNCHANGED <<settings, alive, inbox, nframes>>

\* websocket.close(...) has returned
CloseDone(c) ==
    /\ sess[c].pc \in {"close4000", "close"}
    /\ IF sess[c].pc = "close4000"
       THEN Install(c, [World(c) EXCEPT !.s = Closed(@)])       \* return, line 196 / 201
       ELSE Install(c, Finally([World(c) EXCEPT !.s.code = None, !.s.is_new_room = FALSE,
                                                 !.s.existing_code = None], c))
    /\ UNCHANGED <<settings, alive, inbox, nframes>>

\* websocket.accept() has returned
AcceptDone(c) ==
    /\ sess[c].pc = "accept"
    /\ Install(c, AcceptSegment(World(c), c))
    /\ UNCHANGED <<settings, alive, inbox, nframes>>

\* websocket.accept() has raised (the client went away during the handshake):
\* connect raises, main.py line 318 catches, the finally block runs
AcceptFail(c) ==
    /\ sess[c].pc = "accept"
    /\ ~alive[c]
    /\ Install(c, Finally([World(c) EXCEPT !.s.code = None, !.s.is_new_room = FALSE,
                                           !.s.existing_code = None], c))
    /\ UNCHANGED <<settings, alive, inbox, nframes>>

\* a send of a pass has returned or raised
SendDone(c) ==
    /\ sess[c].pc = "send"
    /\ LET p == sess[c].pass
           connection == PassTarget(manager, p)
           ok == Deliverable(connection)
           p1 == [p EXCEPT !.idx = @ + 1,
                           !.tried = Append(@, connection),
                           !.sent_count = IF ok THEN @ + 1 ELSE @,
                           !.dead_connections = IF ok THEN @ ELSE Append(@, connection)]
           w1 == [World(c) EXCEPT !.s.pass = p1]
       IN  /\ inbox' = IF ok THEN [inbox EXCEPT ![connection] = Append(@, p.message)]
                       ELSE inbox
           /\ IF p.idx < Len(p.snapshot)
              THEN Install(c, w1)
              ELSE Install(c, EndPass(w1, c))
    /\ UNCHANGED <<settings, alive, nframes>>

\* websocket.send_text of one history message has returned or raised
ReplayDone(c) ==
    /\ sess[c].pc = "replay"
    /\ IF Deliverable(c)
       THEN /\ inbox' = [inbox EXCEPT ![c] = Append(@, Head(sess[c].history))]
            /\ LET w1 == [World(c) EXCEPT !.s.history = Tail(@)]
               IN  IF w1.s.history = << >>
                   THEN Install(c, JoinBroadcast(w1, c))
                   ELSE Install(c, w1)
       ELSE /\ inbox' = inbox
            /\ Install(c, Finally([World(c) EXCEPT !.s.history = << >>], c))
    /\ UNCHANGED <<settings, alive, nframes>>

\* receive_text has returned frame
ReceiveFrame(c, frame) ==
    /\ sess[c].pc = "recv"
    /\ alive[c]
    /\ nframes < MaxFrames
    /\ Install(c, FrameSegment(World(c), c, frame, nframes + 1))
    /\ nframes' = nframes + 1
    /\ UNCHANGED <<settings, alive, inbox>>

Receive(c) == \E frame \in Frames : ReceiveFrame(c, frame)

ReceiveShape(c) == \E frame \in Shapes : ReceiveFrame(c, frame)

\* receive_text has raised WebSocketDisconnect
ReceiveDisconnect(c) ==
    /\ sess[c].pc = "recv"
    /\ ~alive[c]
    /\ Install(c, Finally(World(c), c))
    /\ UNCHANGED <<settings, alive, inbox, nframes>>

\* the send of an inline error frame has returned or raised
ErrSendDone(c) ==
    /\ sess[c].pc = "errsend"
    /\ IF Deliverable(c)
       THEN /\ inbox' = [inbox EXCEPT ![c] = Append(@, ErrorFrame(sess[c].error))]
            /\ Install(c, [World(c) EXCEPT !.s.pc = "recv", !.s.error = None,
                                           !.s.caught = None])
       ELSE /\ inbox' = inbox
            /\ Install(c, Finally([World(c) EXCEPT !.s.error = None, !.s.caught = None], c))
    /\ UNCHANGED <<settings, alive, nframes>>

\* the client goes away (closes, or its transport dies)
Drop(c) ==
    /\ sess[c].pc \in {"accept", "send", "replay", "recv", "errsend"}
    /\ alive[c]
    /\ alive' = [alive EXCEPT ![c] = FALSE]
    /\ UNCHANGED <<settings, manager, redis, sess, inbox, nframes>>

\* the external store stops answering / answers again
RedisDown ==
    /\ manager.redis_client /\ redis.up
    /\ redis' = [redis EXCEPT !.up = FALSE]
    /\ UNCHANGED <<settings, manager, sess, alive, inbox, nframes>>

RedisUp ==
    /\ manager.redis_client /\ ~redis.up
    /\ redis' = [redis EXCEPT !.up = TRUE]
    /\ UNCHANGED <<settings, manager, sess, alive, inbox, nframes>>

Next ==
    \/ \E c \in Conns : Join(c)
    \/ \E c \in Conns : CloseDone(c)
    \/ \E c \in Conns : AcceptDone(c)
    \/ \E c \in Conns : AcceptFail(c)
    \/ \E c \in Conns : SendDone(c)
    \/ \E c \in Conns : ReplayDone(c)
    \/ \E c \in Conns : Receive(c)
    \/ \E c \in Conns : ReceiveDisconnect(c)
    \/ \E c \in Conns : ErrSendDone(c)
    \/ \E c \in Conns : Drop(c)

NextRedis ==
    \/ Next
    \/ RedisDown
    \/ RedisUp

\* the server on the in-process backend
Spec == Init /\ [][Next]_vars

\* the server on the external store, which may stop answering and recover
SpecRedis == InitRedis /\ [][NextRedis]_vars

NextUpload ==
    \/ Next
    \/ \E c \in Conns : Upload(c)

\* the server on the in-process backend, with file uploads
SpecUpload == Init /\ [][NextUpload]_vars

\* a further chat frame once the frames of Receive are used up, so that two
\* connections can each have a chat broadcast under way
MaxLater == 1
LaterFrame == [kind |-> "chat_message", content |-> "hi"]

ReceiveLater(c) ==
    /\ sess[c].pc = "recv"
    /\ alive[c]
    /\ nframes >= MaxFrames /\ nframes < MaxFrames + MaxLater
    /\ Install(c, FrameSegment(World(c), c, LaterFrame, nframes + 1))
    /\ nframes' = nframes + 1
    /\ UNCHANGED <<settings, alive, inbox>>

\* ample quotas: both connections can be members of one room
InitPair ==
    /\ settings = [max_connections_per_room |-> MaxQuota,
                   max_connections_per_user |-> MaxQuota]
    /\ Startup(FALSE)

NextPair ==
    \/ Next
    \/ \E c \in Conns : ReceiveLater(c)

\* the server on the in-process backend, with two frames in one run
SpecPair == InitPair /\ [][NextPair]_vars

NextShapes ==
    \/ Next
    \/ \E c \in Conns : ReceiveShape(c)

\* the server on the in-process backend, with frames of every shape
SpecShapes == Init /\ [][NextShapes]_vars

\* the server on the in-process backend, with a history left by earlier sessions
SpecHistory == InitHistory /\ [][Next]_vars


(***************************************************************************)
(* Vocabulary of the properties.                                           *)
(***************************************************************************)
InRoomIndex(m, c) == \E r \in DOMAIN m.rooms : In(c, m.rooms[r])
InUserIndex(m, c) == \E u \in DOMAIN m.user_connections : In(c, m.user_connections[u])

\* the step in which connection c arrives and runs up to its first await
JoinStep(c) == sess[c].pc = "idle" /\ sess'[c].pc # "idle"

RoomFull(r) == Len(Get(manager.rooms, r, << >>)) >= settings.max_connections_per_room
UserFull(u) ==
    Len(Get(manager.user_connections, u, << >>)) >= settings.max_connections_per_user

(***************************************************************************)
(* C1.  No entry of the room index or of the user index is ever empty: a   *)
(* room id (user id) is a key exactly while its list holds at least one    *)
(* connection.  Every state is a point where another task can run, since   *)
(* an action is one atomic segment of a handler.                           *)
(***************************************************************************)
C1_NoEmptyEntry ==
    /\ \A r \in DOMAIN manager.rooms : manager.rooms[r] # << >>
    /\ \A u \in DOMAIN manager.user_connections : manager.user_connections[u] # << >>

\* an admitted session has ended and took the last entries of both indices away
C1_Witness ==
    \E c \in Conns :
        /\ sess[c].pc = "closed" /\ sess[c].close_code = 0
        /\ DOMAIN manager.rooms = {} /\ DOMAIN manager.user_connections = {}

(***************************************************************************)
(* C2.  connect lets a connection through to accept iff its room holds     *)
(* fewer than max_connections_per_room connections and its user fewer than *)
(* max_connections_per_user; otherwise it closes with 4003 (room full,     *)
(* checked first) or 4004 (user over the limit) and changes neither index. *)
(* A connection let through is in both indices once accept has returned; a *)
(* connection closed with 4003 or 4004 is never in either.                 *)
(***************************************************************************)
C2_RejectedNeverRegistered ==
    \A c \in Conns :
        sess[c].close_code \in {4003, 4004} =>
            ~InRoomIndex(manager, c) /\ ~InUserIndex(manager, c)

C2_Decision ==
    \A c \in Conns :
        (JoinStep(c) /\ sess'[c].close_code \notin {4000, 4001}) =>
            LET r == sess'[c].room_id
                u == sess'[c].user_id
            IN  /\ sess'[c].pc = "accept" <=> (~RoomFull(r) /\ ~UserFull(u))
                /\ sess'[c].close_code = 4003 <=> RoomFull(r)
                /\ sess'[c].close_code = 4004 <=> (~RoomFull(r) /\ UserFull(u))
                /\ manager'.rooms = manager.rooms
                /\ manager'.user_connections = manager.user_connections

C2_Registers ==
    \A c \in Conns :
        AcceptDone(c) =>
            /\ In(c, Get(manager'.rooms, sess[c].room_id, << >>))
            /\ In(c, Get(manager'.user_connections, sess[c].user_id, << >>))

C2_ConnectAdmitsIffQuota ==
    /\ [](C2_RejectedNeverRegistered)
    /\ [][C2_Decision /\ C2_Registers]_vars

\* a join was closed with 4004 at a user holding exactly the quota, and one
\* with 4003 is possible too
C2_Witness ==
    \E c \in Conns :
        /\ sess[c].pc = "close" /\ sess[c].close_code \in {4003, 4004}
        /\ \/ sess[c].close_code = 4003 /\ RoomFull(sess[c].room_id)
           \/ sess[c].close_code = 4004 /\ UserFull(sess[c].user_id)
                                       /\ ~RoomFull(sess[c].room_id)

(***************************************************************************)
(* C3.  While room R has connections and a code for R is on record, a join *)
(* to R that supplies anything but a recorded code (nothing and the empty  *)
(* string included, letter case significant) is closed with 4001, and a    *)
(* join that supplies the recorded code gets to the quota checks.  Fails   *)
(* on the external store: while the store does not answer, get_room_code   *)
(* reads the in-process dict, finds no code, and the handler treats the    *)
(* join as the creation of the room.                                       *)
(***************************************************************************)
CodesOnRecord(r) ==
    {Get(redis.codes, r, None), Get(manager.room_codes, r, None)} \ {None}

C3_CodeAuthenticatesEveryJoin ==
    [][\A c \in Conns :
          (JoinStep(c) /\ sess'[c].close_code # 4000) =>
              LET r == sess'[c].room_id
                  code == sess'[c].code
              IN  (Has(manager.rooms, r) /\ CodesOnRecord(r) # {}) =>
                      /\ code \notin CodesOnRecord(r) => sess'[c].close_code = 4001
                      /\ CodesOnRecord(r) = {code} => sess'[c].close_code # 4001]_vars

(***************************************************************************)
(* C4.  A join closed with 4001 causes no frame to be sent to anyone: no   *)
(* inbox ever holds a message built by the handler of a connection that    *)
(* was closed with 4001.  Fails: the return after the 4001 close is inside *)
(* the try, so the finally block broadcasts user_left to the room.         *)
(***************************************************************************)
C4_RejectedJoinSendsNothing ==
    \A t \in Conns : \A i \in 1..Len(inbox[t]) :
        inbox[t][i].type # "error" => sess[inbox[t][i].id[1]].close_code # 4001

(***************************************************************************)
(* C5.  A join closed with 4000, 4003 or 4004 changes no state: the        *)
(* manager (indices, counters, room codes) and the store are the same      *)
(* after the segment that decides the rejection as before it.  Fails: the  *)
(* code of a new room is stored before connect checks the quotas.          *)
(***************************************************************************)
C5_RejectionMutatesNothing ==
    [][\A c \in Conns :
          (JoinStep(c) /\ sess'[c].close_code \in {4000, 4003, 4004}) =>
              manager' = manager /\ redis' = redis]_vars

(***************************************************************************)
(* Passes.  RoomPassReturns(c): the step in which the last send of a       *)
(* broadcast_to_room pass of c's handler comes back and the cleanup runs.  *)
(* Failed(c): the connections whose send raised during that pass.          *)
(***************************************************************************)
InRoomPass(c) == sess[c].pc = "send" /\ sess[c].pass.kind = "room"

RoomPassReturns(c) ==
    /\ InRoomPass(c)
    /\ sess[c].pass.idx = Len(sess[c].pass.snapshot)
    /\ SendDone(c)

Failed(c) ==
    Range(sess[c].pass.dead_connections)
        \cup (IF Deliverable(PassTarget(manager, sess[c].pass)) THEN {}
              ELSE {PassTarget(manager, sess[c].pass)})

(***************************************************************************)
(* C6.  A broadcast_to_room pass sends to exactly the connections that     *)
(* were in the room's list when the pass began, in that order, whatever    *)
(* happens to the list meanwhile; when the pass returns, no connection     *)
(* whose send failed is in the room's list, and the room is not left       *)
(* behind empty.                                                           *)
(***************************************************************************)
C6_Attempts ==
    \A c \in Conns :
        InRoomPass(c) =>
            sess[c].pass.tried = SubSeq(sess[c].pass.snapshot, 1, sess[c].pass.idx - 1)

C6_Begins ==
    \A c \in Conns :
        (sess'[c].pass.kind = "room" /\ sess'[c].pass.idx = 1
             /\ sess'[c].pass # sess[c].pass) =>
            /\ Has(manager'.rooms, sess'[c].pass.key)
            /\ sess'[c].pass.snapshot = manager'.rooms[sess'[c].pass.key]

C6_Delivers ==
    \A c \in Conns :
        (InRoomPass(c) /\ SendDone(c)) =>
            \A t \in Conns :
                inbox'[t] # inbox[t] =>
                    /\ t = sess[c].pass.snapshot[sess[c].pass.idx]
                    /\ inbox'[t] = Append(inbox[t], sess[c].pass.message)

C6_Returns ==
    \A c \in Conns :
        RoomPassReturns(c) =>
            LET room_id == sess[c].pass.key
            IN  /\ \A d \in Failed(c) : ~In(d, Get(manager'.rooms, room_id, << >>))
                /\ Has(manager'.rooms, room_id) => manager'.rooms[room_id] # << >>

C6_BroadcastOverSnapshot ==
    /\ [](C6_Attempts)
    /\ [][C6_Begins /\ C6_Delivers /\ C6_Returns]_vars

\* a connection whose client is gone, and whose handler still waits in
\* receive_text, is no longer in its room: a pass has reaped it
C6_Witness ==
    \E t \in Conns :
        /\ sess[t].pc = "recv" /\ ~alive[t]
        /\ ~InRoomIndex(manager, t)

(***************************************************************************)
(* C7.  When a broadcast_to_room pass returns, no connection whose send    *)
(* failed is in the user index either.  Fails: the cleanup of the pass     *)
(* only touches self.rooms[room_id].                                       *)
(***************************************************************************)
C7_ReapedFromUserIndex ==
    [][\A c \in Conns :
          RoomPassReturns(c) => \A d \in Failed(c) : ~InUserIndex(manager', d)]_vars

(***************************************************************************)
(* C8.  A handler that got past the id validation and ends, ends through   *)
(* the finally block: disconnect has run (the connection is in neither     *)
(* index from then on), the user_left notice is broadcast over the list of *)
(* the members still in the room (nothing is sent when the room is gone),  *)
(* the handler returns only after the notice was tried on all of them, and *)
(* nothing raised in the block gets out of the handler.                    *)
(***************************************************************************)
C8_ClosedIsUnregistered ==
    \A c \in Conns :
        (sess[c].pc = "closed" \/ sess[c].pass.after = "end") =>
            /\ ~InRoomIndex(manager, c)
            /\ ~InUserIndex(manager, c)
            /\ ~sess[c].escaped

EntersFinally(c) ==
    /\ sess[c].pc \notin {"idle", "close4000", "closed"}
    /\ sess[c].pass.after # "end"
    /\ sess'[c].pc = "closed" \/ sess'[c].pass.after = "end"

C8_Notice ==
    \A c \in Conns :
        EntersFinally(c) =>
            IF Has(manager'.rooms, sess[c].room_id)
            THEN /\ sess'[c].pc = "send"
                 /\ sess'[c].pass.kind = "room"
                 /\ sess'[c].pass.key = sess[c].room_id
                 /\ sess'[c].pass.snapshot = manager'.rooms[sess[c].room_id]
                 /\ sess'[c].pass.idx = 1
                 /\ sess'[c].pass.message.type = "user_left"
                 /\ sess'[c].pass.message.content = sess[c].user_id
            ELSE sess'[c].pc = "closed"

C8_NoticeTriedOnAll ==
    \A c \in Conns :
        (sess[c].pass.after = "end" /\ sess'[c].pc = "closed") =>
            sess[c].pass.idx = Len(sess[c].pass.snapshot)

C8_CleanupOnEveryExit ==
    /\ [](C8_ClosedIsUnregistered)
    /\ [][C8_Notice /\ C8_NoticeTriedOnAll]_vars

\* an admitted session has ended, is in neither index, and its notice has
\* reached another connection
C8_Witness ==
    \E c \in Conns, t \in Conns :
        /\ t # c
        /\ sess[c].pc = "closed" /\ sess[c].close_code = 0
        /\ ~InRoomIndex(manager, c) /\ ~InUserIndex(manager, c)
        /\ \E i \in 1..Len(inbox[t]) :
              inbox[t][i].type = "user_left" /\ inbox[t][i].id = <<c, "left">>

(***************************************************************************)
(* C9.  No pass raises into the frame that started it, so no sender is     *)
(* sent the "Failed to process message" frame because a target             *)
(* disconnected.  Fails: the cleanup of a pass indexes the room (user)     *)
(* entry again, and that entry is gone when the last connection of the     *)
(* room (user) disconnected while the pass was suspended on a send.        *)
(***************************************************************************)
C9_FailureNeverSurfaces ==
    \A c \in Conns :
        /\ sess[c].caught # "KeyError"
        /\ \A i \in 1..Len(inbox[c]) :
              ~(inbox[c][i].type = "error"
                    /\ inbox[c][i].content = "Failed to process message")

(***************************************************************************)
(* C10.  disconnect, on the arguments a handler passes to it, raises       *)
(* nothing, leaves the same manager when called twice as when called once, *)
(* and leaves the manager unchanged when the connection is missing from    *)
(* the room's list, from the user's list or from both.  Fails on the last  *)
(* part: a connection reaped by a broadcast pass is missing from the room  *)
(* but still in the user index, and disconnect then changes the user       *)
(* index.                                                                  *)
(***************************************************************************)
C10_DisconnectIdempotentTotal ==
    \A c \in Conns :
        sess[c].pc \in {"close", "accept", "send", "replay", "recv", "errsend"} =>
            LET room_id == sess[c].room_id
                user_id == sess[c].user_id
                once == disconnect(manager, c, room_id, user_id)
                twice == disconnect(once.manager, c, room_id, user_id)
                absent == \/ ~In(c, Get(manager.rooms, room_id, << >>))
                          \/ ~In(c, Get(manager.user_connections, user_id, << >>))
            IN  /\ ~once.raised /\ ~twice.raised
                /\ twice.manager = once.manager
                /\ absent => once.manager = manager

(***************************************************************************)
(* C11.  The tracked counts agree with the indices: connection_counts[R]   *)
(* is the length of R's list for every room R in the room index, a room    *)
(* outside the index has no count or a count of zero, and the same for     *)
(* user_connection_counts against the user index.  Fails: the cleanup of   *)
(* a broadcast pass removes connections (and the room) without touching    *)
(* connection_counts, and the cleanup of send_personal_message removes     *)
(* connections without touching user_connection_counts.                    *)
(***************************************************************************)
C11_CountsMatchIndices ==
    /\ \A r \in DOMAIN manager.rooms :
          Get(manager.connection_counts, r, 0) = Len(manager.rooms[r])
    /\ \A r \in DOMAIN manager.connection_counts :
          manager.connection_counts[r] # 0 => Has(manager.rooms, r)
    /\ \A u \in DOMAIN manager.user_connections :
          Get(manager.user_connection_counts, u, 0) = Len(manager.user_connections[u])
    /\ \A u \in DOMAIN manager.user_connection_counts :
          manager.user_connection_counts[u] # 0 => Has(manager.user_connections, u)

(***************************************************************************)
(* C12.  The system_info message that carries the code of a new room is    *)
(* received by the connection whose admission created the room and by no   *)
(* other.  Fails: the handler sends it with send_personal_message to the   *)
(* user id, that is, to every connection registered under that user id,    *)
(* in whatever room.                                                       *)
(***************************************************************************)
C12_CodeRevealToCreatorOnly ==
    \A t \in Conns : \A i \in 1..Len(inbox[t]) :
        inbox[t][i].type = "system_info" => inbox[t][i].id = <<t, "create">>

(***************************************************************************)
(* C13.  A chat frame (plain text or JSON chat_message) whose content is   *)
(* not empty after strip starts a broadcast_to_room pass of one            *)
(* chat_message, sent by the session's user id, over the list of the       *)
(* session's room, and when the pass is over the message is the newest     *)
(* entry of the room's history; a frame whose content is empty after strip *)
(* changes nothing.  Fails on the append: when the room was deleted while  *)
(* the pass was suspended the cleanup of the pass raises and store_message *)
(* is never called.                                                        *)
(***************************************************************************)
ChatFrames == {f \in Frames : f.kind \in {"text", "chat_message"}
                              /\ Len(Raw(f)) <= MaxMessageLength}

C13_Broadcasts ==
    \A c \in Conns : \A f \in ChatFrames :
        (ReceiveFrame(c, f) /\ strip(f.content) # "") =>
            /\ Has(manager.rooms, sess[c].room_id)
            /\ sess'[c].pc = "send"
            /\ sess'[c].pass.kind = "room"
            /\ sess'[c].pass.key = sess[c].room_id
            /\ sess'[c].pass.snapshot = manager.rooms[sess[c].room_id]
            /\ sess'[c].pass.idx = 1
            /\ sess'[c].pass.message.type = "chat_message"
            /\ sess'[c].pass.message.sender = sess[c].user_id
            /\ sess'[c].pass.message.content = strip(f.content)

C13_Appends ==
    \A c \in Conns :
        (RoomPassReturns(c) /\ sess[c].pass.message.type = "chat_message") =>
            LET before == Get(manager.message_history, sess[c].room_id, << >>)
                after == Get(manager'.message_history, sess[c].room_id, << >>)
            IN  after = Prefix(<<sess[c].pass.message>> \o before, message_history_length)

C13_BlankIsDropped ==
    \A c \in Conns : \A f \in ChatFrames :
        (ReceiveFrame(c, f) /\ strip(f.content) = "") =>
            /\ manager' = manager
            /\ inbox' = inbox
            /\ sess'[c] = sess[c]

C13_ChatIsBroadcastAndStored ==
    [][C13_Broadcasts /\ C13_Appends /\ C13_BlankIsDropped]_vars


\* ---------------------------------------------------------------------------
\* C14
\* ---------------------------------------------------------------------------
Stored(r) == Get(manager.message_history, r, << >>)

\* a connection starts replaying: its handler has just read the room's history
StartsReplay(c) == sess[c].pc # "replay" /\ sess'[c].pc = "replay"

C14_Cap == \A r \in RoomIds : Len(Stored(r)) <= message_history_length

C14_DropsOldest ==
    \A r \in RoomIds :
        LET old == Stored(r)
            new == Get(manager'.message_history, r, << >>)
        IN  new # old =>
              /\ new # << >>
              /\ new[1] \notin Range(old)
              /\ Tail(new) = IF Len(old) = message_history_length
                             THEN SubSeq(old, 1, message_history_length - 1)
                             ELSE old

C14_ReplayIsRetained ==
    \A c \in Conns :
        StartsReplay(c) =>
            /\ Range(sess'[c].history) = Range(Stored(sess'[c].room_id))
            /\ Len(sess'[c].history) = Len(Stored(sess'[c].room_id))

Older(a, b) ==
    /\ a.id[1] = Earlier
    /\ b.id[1] = Earlier => a.id[2] < b.id[2]

OldestFirst(seq) ==
    \A i \in 1..Len(seq) : \A j \in (i + 1)..Len(seq) : ~Older(seq[j], seq[i])

\* the handler of c takes a step of its history replay
ReplayStep(c) == sess[c].pc = "replay" /\ sess'[c] # sess[c]

C15_StoredNewestFirst == \A r \in RoomIds : OldestFirst(Reverse(Stored(r)))

C15_ReadIsOldestFirst ==
    \A c \in Conns :
        StartsReplay(c) =>
            LET h  == sess'[c].history
                st == Stored(sess'[c].room_id)
            IN  /\ Len(h) = Len(st)
                /\ \A i \in 1..Len(h) : h[i] = st[Len(st) + 1 - i]
                /\ OldestFirst(h)

C15_ReplaySendsInOrder ==
    \A c \in Conns :
        ReplayStep(c) /\ Deliverable(c) =>
            /\ inbox'[c] = Append(inbox[c], Head(sess[c].history))
            /\ sess'[c].pc = "replay" => sess'[c].history = Tail(sess[c].history)

C15_ReceivedOldestFirst ==
    \A c \in Conns :
        OldestFirst(SelectSeq(inbox[c],
            LAMBDA f : f.type = "chat_message" /\ f.id[1] = Earlier))

\* C15: a read of a room's history returns the retained entries in the order
\* they were stored, oldest first (the store keeps them newest first), and the
\* replay sends them to the joiner one by one in that order.
C15_HistoryReadOldestFirst ==
    /\ [](C15_StoredNewestFirst /\ C15_ReceivedOldestFirst)
    /\ [][C15_ReadIsOldestFirst /\ C15_ReplaySendsInOrder]_vars

\* a joiner has been sent the two earlier messages of its room, the older first
C15_Witness ==
    \E c \in Conns : \E i \in 1..Len(inbox[c]) : \E j \in (i + 1)..Len(inbox[c]) :
        /\ inbox[c][i] = EarlierMessage(1)
        /\ inbox[c][j] = EarlierMessage(2)
        /\ sess[c].pc # "replay"

\* ---------------------------------------------------------------------------
\* C16
\* ---------------------------------------------------------------------------
Histories ==
    {manager.message_history[r] : r \in DOMAIN manager.message_history}
        \cup {redis.history[r] : r \in DOMAIN redis.history}

Received(c, type) == \E i \in 1..Len(inbox[c]) : inbox[c][i].type = type

\* C16: every entry of every room history is a chat message; no private
\* message, join or leave notice, code reveal or file notice is ever stored.
C16_HistoryHoldsOnlyChat ==
    \A h \in Histories : \A i \in 1..Len(h) : h[i].type = "chat_message"

\* a room has a stored chat message although a file notice, a join notice and
\* a code reveal have been delivered
C16_Witness ==
    /\ \E h \in Histories : h # << >>
    /\ \E c \in Conns : Received(c, "file_shared")
    /\ \E c \in Conns : Received(c, "user_joined")
    /\ \E c \in Conns : Received(c, "system_info")

\* ---------------------------------------------------------------------------
\* C17
\* ---------------------------------------------------------------------------
\* the handler of c is inside the send loop of send_personal_message
InUserPass(c) == sess[c].pc = "send" /\ sess[c].pass.kind = "user"

\* the call of send_personal_message made by the handler of c ends in this step
UserPassEnds(c) == InUserPass(c) /\ sess'[c].pass # sess[c].pass /\ ~InUserPass(c)'

C17_Begins ==
    \A c \in Conns :
        (sess'[c].pass.kind = "user" /\ sess'[c].pass.idx = 1
             /\ sess'[c].pass # sess[c].pass) =>
            /\ Has(manager'.user_connections, sess'[c].pass.key)
            /\ sess'[c].pass.snapshot = manager'.user_connections[sess'[c].pass.key]

C17_Delivers ==
    \A c \in Conns :
        (InUserPass(c) /\ SendDone(c)) =>
            \A t \in Conns :
                inbox'[t] # inbox[t] =>
                    /\ t = sess[c].pass.snapshot[sess[c].pass.idx]
                    /\ sess[t].user_id = sess[c].pass.key
                    /\ inbox'[t] = Append(inbox[t], sess[c].pass.message)

C17_UnknownReturnsFalse ==
    \A c \in Conns : \A f \in Frames :
        (ReceiveFrame(c, f) /\ f.kind = "private_message"
             /\ ~Has(manager.user_connections, f.recipient)) =>
            /\ sess'[c].returned = "False"
            /\ inbox' = inbox

C17_Returns ==
    \A c \in Conns :
        UserPassEnds(c) =>
            LET succeeded == sess[c].pass.sent_count
                                + (IF inbox' # inbox THEN 1 ELSE 0)
            IN  sess'[c].returned = IF succeeded > 0 THEN "True" ELSE "False"

C17_OnlyRecipientReceives ==
    \A t \in Conns :
        (inbox'[t] # inbox[t] /\ inbox'[t][Len(inbox'[t])].type = "private_message") =>
            sess[t].user_id = inbox'[t][Len(inbox'[t])].recipient

\* C17: send_personal_message attempts delivery on exactly the connections
\* the recipient has when the call starts, delivers to no connection of
\* another user, and returns True when at least one delivery succeeded and
\* False otherwise (unknown recipient, or every delivery failed); a private
\* message reaches only connections of its recipient.
C17_PersonalMessageContract ==
    [][C17_Begins /\ C17_Delivers /\ C17_UnknownReturnsFalse /\ C17_Returns
         /\ C17_OnlyRecipientReceives]_vars

\* ---------------------------------------------------------------------------
\* C18
\* ---------------------------------------------------------------------------
\* the frame is a message stored by an earlier session: only a replay sends it
Replayed(f) == f.type = "chat_message" /\ f.id[1] = Earlier

\* the frame is the code reveal / the join notice of the admission of c
OwnReveal(c, f) == f.type = "system_info" /\ f.id[1] = c
OwnJoinNotice(c, f) == f.type = "user_joined" /\ f.id[1] = c

\* the handler of c starts the user_joined broadcast of its admission
JoinNoticeStarts(c) ==
    /\ sess'[c].pass # sess[c].pass
    /\ sess'[c].pass.kind = "room" /\ sess'[c].pass.idx = 1
    /\ sess'[c].pass.message.type = "user_joined"

\* the handler of c is inside the send_personal_message of its code reveal
InReveal(c) == sess[c].pc = "send" /\ sess[c].pass.after = "history"

C18_ReplayDoneAtJoinNotice ==
    \A c \in Conns :
        JoinNoticeStarts(c) =>
            /\ sess'[c].history = << >>
            /\ \A m \in Range(Stored(sess'[c].room_id)) :
                   Replayed(m) => m \in Range(inbox'[c])

C18_RevealStartsFirst ==
    \A c \in Conns :
        (AcceptDone(c) /\ sess[c].is_new_room) =>
            /\ InReveal(c)'
            /\ sess'[c].pass.message.type = "system_info"

C18_NoReplayDuringReveal ==
    \A c \in Conns :
        InReveal(c) =>
            /\ sess[c].history = << >>
            /\ \A i \in 1..Len(inbox[c]) : ~Replayed(inbox[c][i])

C18_ReceivedInOrder ==
    \A c \in Conns :
        \A i \in 1..Len(inbox[c]) : \A j \in (i + 1)..Len(inbox[c]) :
            /\ ~(OwnJoinNotice(c, inbox[c][i]) /\ Replayed(inbox[c][j]))
            /\ ~(Replayed(inbox[c][i]) /\ OwnReveal(c, inbox[c][j]))
            /\ (Replayed(inbox[c][i]) /\ Replayed(inbox[c][j]))
                   => inbox[c][i].id[2] < inbox[c][j].id[2]

\* C18: when the handler of an admitted connection starts its user_joined
\* broadcast, every history frame has been sent to the connection, oldest
\* first; when the admission created the room, the code reveal is started
\* right after the accept and no history frame is sent until it has ended.
C18_RevealReplayJoinOrder ==
    /\ [](C18_NoReplayDuringReveal /\ C18_ReceivedInOrder)
    /\ [][C18_ReplayDoneAtJoinNotice /\ C18_RevealStartsFirst]_vars

\* the creator of a room that has a history from earlier sessions has received
\* its code reveal, then a replayed message, then its own join notice
C18_Witness ==
    \E c \in Conns : \E i \in 1..Len(inbox[c]) :
        \E j \in (i + 1)..Len(inbox[c]) : \E k \in (j + 1)..Len(inbox[c]) :
            /\ OwnReveal(c, inbox[c][i])
            /\ Replayed(inbox[c][j])
            /\ OwnJoinNotice(c, inbox[c][k])

\* ---------------------------------------------------------------------------
\* C19
\* ---------------------------------------------------------------------------
\* C19: the user_joined notice of an admission is delivered to the other
\* members of the room only; the admitted connection never receives it.
C19_JoinerNotNotified ==
    \A c \in Conns : \A i \in 1..Len(inbox[c]) : ~OwnJoinNotice(c, inbox[c][i])

\* ---------------------------------------------------------------------------
\* C20
\* ---------------------------------------------------------------------------
\* the handler of c is about to send the inline error frame for an oversize frame
RefusingOversize(c) == sess[c].pc = "errsend" /\ sess[c].error = TooLongError

OversizeErrors ==
    UNION {{<<c, i>> : i \in {j \in 1..Len(inbox[c]) :
                                  inbox[c][j] = ErrorFrame(TooLongError)}} : c \in Conns}

C20_OversizeIsDropped ==
    \A c \in Conns : \A f \in Frames :
        (ReceiveFrame(c, f) /\ Len(Raw(f)) > MaxMessageLength) =>
            /\ RefusingOversize(c)'
            /\ sess'[c].pass = NoPass
            /\ sess'[c].broadcast_msg = << >>
            /\ manager' = manager /\ redis' = redis /\ inbox' = inbox

C20_ErrorToOffenderOnly ==
    \A c \in Conns :
        (RefusingOversize(c) /\ ErrSendDone(c)) =>
            IF Deliverable(c)
            THEN /\ inbox' = [inbox EXCEPT ![c] = Append(@, ErrorFrame(TooLongError))]
                 /\ sess'[c].pc = "recv"
                 /\ manager' = manager /\ redis' = redis
            ELSE \* the client is gone: the send raises and the handler ends
                 inbox' = inbox /\ EntersFinally(c)

C20_FullLengthIsProcessed ==
    \A c \in Conns : \A f \in Frames :
        (ReceiveFrame(c, f) /\ f.kind = "text" /\ Len(Raw(f)) = MaxMessageLength) =>
            /\ sess'[c].error = None
            /\ \/ /\ sess'[c].pc = "send" /\ sess'[c].pass.kind = "room"
                  /\ sess'[c].pass.message.type = "chat_message"
                  /\ sess'[c].pass.message.content = Raw(f)
               \/ LET new == Get(manager'.message_history, sess[c].room_id, << >>)
                  IN  new # << >> /\ new[1].content = Raw(f)

C20_OneErrorPerOversize == Cardinality(OversizeErrors) <= nframes

\* C20: a received frame of more than 1000 characters starts no broadcast,
\* no personal message and no store; its only effect is one inline error
\* frame to the connection that sent it, after which the handler is back in
\* the receive loop. A frame of exactly 1000 characters is handled as chat.
C20_OversizeFrameRefused ==
    /\ []C20_OneErrorPerOversize
    /\ [][C20_OversizeIsDropped /\ C20_ErrorToOffenderOnly
            /\ C20_FullLengthIsProcessed]_vars

\* a connection has been sent the oversize error frame and its handler is
\* waiting for the next frame
C20_Witness ==
    \E c \in Conns :
        /\ sess[c].pc = "recv" /\ alive[c]
        /\ ErrorFrame(TooLongError) \in Range(inbox[c])
        /\ InRoomIndex(manager, c)

\* ---------------------------------------------------------------------------
\* C21
\* ---------------------------------------------------------------------------
\* the handler of c starts handling content as a chat message: the broadcast
\* of a chat_message with that content begins, or, the room being gone, the
\* message goes straight to the history
HandledAsChat(c, content) ==
    /\ sess'[c].error = None
    /\ \/ /\ sess'[c].pc = "send" /\ sess'[c].pass.kind = "room"
          /\ sess'[c].pass.message.type = "chat_message"
          /\ sess'[c].pass.message.sender = sess[c].user_id
          /\ sess'[c].pass.message.content = content
       \/ LET new == Get(manager'.message_history, sess[c].room_id, << >>)
          IN  /\ new # Stored(sess[c].room_id)
              /\ new[1].type = "chat_message" /\ new[1].content = content

\* the frame leaves no trace: nothing sent, nothing stored, back in receive_text
Ignored(c) ==
    /\ sess'[c] = sess[c]
    /\ manager' = manager /\ redis' = redis /\ inbox' = inbox

C21_PlainText(kinds) ==
    \A c \in Conns : \A f \in Frames \cup Shapes :
        (ReceiveFrame(c, f) /\ f.kind \in kinds /\ ~TooLong(Raw(f))) =>
            IF strip(Raw(f)) = "" THEN Ignored(c) ELSE HandledAsChat(c, strip(Raw(f)))

\* C21: a frame within the length limit that is not a private_message or
\* chat_message object (text that is not JSON, an object of another type or
\* of none, JSON that is not an object) is trimmed and, when something is
\* left, broadcast and stored as a chat_message with that text as content.
C21_OtherShapesArePlainText == [][C21_PlainText({"text", "value", "object"})]_vars

\* ---------------------------------------------------------------------------
\* C22
\* ---------------------------------------------------------------------------
\* the handler of c is in its receive loop: waiting for a frame or busy with one
InReceiveLoop(c) ==
    \/ sess[c].pc \in {"recv", "errsend"}
    \/ sess[c].pc = "send" /\ sess[c].pass.after \in {"store", "store_text", "recv"}

\* frames whose processing fails before anything is sent
FailingShapes ==
    {f \in Frames \cup Shapes :
        \/ f.kind \in {"value", "bad_chat_message"}
        \/ f.kind = "private_message" /\ (strip(f.recipient) = "" \/ strip(f.content) = "")}

C22_StaysInLoop ==
    \A c \in Conns :
        (InReceiveLoop(c) /\ alive[c] /\ sess'[c] # sess[c]) => InReceiveLoop(c)'

C22_FailureSendsNothing ==
    \A c \in Conns : \A f \in FailingShapes :
        ReceiveFrame(c, f) =>
            /\ sess'[c].pc = "errsend" /\ sess'[c].error # None
            /\ sess'[c].pass = NoPass
            /\ manager' = manager /\ redis' = redis /\ inbox' = inbox

C22_ErrorFrameToOffender ==
    \A c \in Conns :
        (ErrSendDone(c) /\ Deliverable(c)) =>
            /\ inbox' = [inbox EXCEPT ![c] = Append(@, ErrorFrame(sess[c].error))]
            /\ sess'[c].pc = "recv"
            /\ manager' = manager /\ redis' = redis

C22_ErrorFrameOnlyFromOwnHandler ==
    \A t \in Conns :
        (inbox'[t] # inbox[t] /\ inbox'[t][Len(inbox'[t])].type = "error") =>
            sess[t].pc = "errsend" /\ sess'[t] # sess[t]

\* C22: while its client is connected, no frame takes a handler out of its
\* receive loop; a frame whose processing fails changes nothing but for one
\* error frame, which goes to the connection that sent the frame and to no
\* other, after which the handler waits for the next frame.
C22_FrameNeverEndsSession ==
    [][C22_StaysInLoop /\ C22_FailureSendsNothing /\ C22_ErrorFrameToOffender
         /\ C22_ErrorFrameOnlyFromOwnHandler]_vars

\* a connection got "Failed to process message" and its handler waits for the
\* next frame, while the other member of its room got no error frame
C22_Witness ==
    \E c \in Conns, d \in Conns :
        /\ c # d
        /\ sess[c].pc = "recv" /\ alive[c]
        /\ sess[d].pc = "recv" /\ sess[d].room_id = sess[c].room_id
        /\ ErrorFrame("Failed to process message") \in Range(inbox[c])
        /\ \A i \in 1..Len(inbox[d]) : inbox[d][i].type # "error"

\* ---------------------------------------------------------------------------
\* C23
\* ---------------------------------------------------------------------------
\* c has been admitted and its handler has not reached its finally block
Admitted(c) ==
    /\ sess[c].pc \in {"accept", "send", "replay", "recv", "errsend"}
    /\ sess[c].pass.after # "end"

\* the chat broadcast of c returns and the handler goes on to store_message
ChatPassReturns(c) ==
    /\ sess[c].pc = "send" /\ sess[c].pass.after \in {"store", "store_text"}
    /\ sess'[c].pc = "recv"

C23_PushFallsBack ==
    \A c \in Conns :
        ChatPassReturns(c) =>
            LET room_id == sess[c].room_id
                log == IF redis.up THEN Get(redis'.history, room_id, << >>)
                       ELSE Get(manager'.message_history, room_id, << >>)
            IN  log # << >> /\ log[1] = sess[c].broadcast_msg

C23_SessionSurvivesOutage ==
    \A c \in Conns : (Admitted(c) /\ alive[c]) => ~EntersFinally(c)

\* C23: with the external store selected, an operation whose store call
\* raises is carried out on the in-process fallback instead, and no session
\* whose client is connected is ended by it.
C23_StoreFailureNeverSurfaces == [][C23_PushFallsBack /\ C23_SessionSurvivesOutage]_vars

\* ---------------------------------------------------------------------------
\* C24
\* ---------------------------------------------------------------------------
\* a handler is between its code check and the end of its finally block for
\* room r: its admission, or the cleanup after its rejection, is under way
InAdmission(r) ==
    \E c \in Conns : sess[c].room_id = r /\ sess[c].pc \notin {"idle", "closed"}

C24_CodeGoesWithRoom ==
    \A r \in RoomIds :
        (Has(manager.rooms, r) /\ ~Has(manager'.rooms, r)) => ~Has(manager'.room_codes, r)

C24_CodeOnlyWithMembers ==
    \A r \in RoomIds :
        Has(manager.room_codes, r) => Has(manager.rooms, r) \/ InAdmission(r)

\* C24: on the in-process backend the step that empties a room deletes its
\* code, and a code is on record only for a room that has a connection (or
\* whose first connection is being admitted).
C24_CodeOnRecordIffMembers == []C24_CodeOnlyWithMembers /\ [][C24_CodeGoesWithRoom]_vars

\* ---------------------------------------------------------------------------
\* C25
\* ---------------------------------------------------------------------------
\* C25: no room ever holds more than max_connections_per_room connections
\* and no user more than max_connections_per_user.
C25_QuotasNeverExceeded ==
    /\ \A r \in DOMAIN manager.rooms :
          Len(manager.rooms[r]) <= settings.max_connections_per_room
    /\ \A u \in DOMAIN manager.user_connections :
          Len(manager.user_connections[u]) <= settings.max_connections_per_user

\* ---------------------------------------------------------------------------
\* C26
\* ---------------------------------------------------------------------------
\* C26: on the in-process backend every room that holds a connection has an
\* access code on record.
C26_RoomWithMembersHasCode ==
    \A r \in DOMAIN manager.rooms : Has(manager.room_codes, r)

\* ---------------------------------------------------------------------------
\* C27
\* ---------------------------------------------------------------------------
\* C27: the room index and the user index hold the same connections.
C27_IndicesHoldSameConnections ==
    \A c \in Conns : InRoomIndex(manager, c) <=> InUserIndex(manager, c)

\* ---------------------------------------------------------------------------
\* C28
\* ---------------------------------------------------------------------------
\* c is a connected member of r whose admission is complete: code reveal,
\* replay and join notice are behind it and its handler waits for a frame
ActiveMember(c, r) ==
    /\ In(c, Get(manager.rooms, r, << >>))
    /\ sess[c].pc = "recv" /\ alive[c]

\* C28: a chat message of this run that is in the history of room R has been
\* received, live or in its replay, by every connected member of R whose
\* admission is complete.
C28_NoMemberMissesMessage ==
    \A r \in RoomIds : \A i \in 1..Len(Stored(r)) :
        Stored(r)[i].id[1] \in Conns =>
            \A c \in Conns : ActiveMember(c, r) => Stored(r)[i] \in Range(inbox[c])

\* ---------------------------------------------------------------------------
\* C29
\* ---------------------------------------------------------------------------
Before(seq, a, b) ==
    \E i \in 1..Len(seq) : \E j \in (i + 1)..Len(seq) : seq[i] = a /\ seq[j] = b

\* the chat messages that connection c has received
ChatReceived(c) ==
    {inbox[c][i] : i \in {j \in 1..Len(inbox[c]) : inbox[c][j].type = "chat_message"}}

\* m1 and m2 were sent by the handlers of two different connections
FromTwoSessions(m1, m2) == m1.id[1] # m2.id[1]

C29_SameOrderEverywhere ==
    \A c \in Conns, d \in Conns :
        \A m1 \in ChatReceived(c), m2 \in ChatReceived(c) :
            (FromTwoSessions(m1, m2) /\ Before(inbox[c], m1, m2))
                => ~Before(inbox[d], m2, m1)

C29_StoredInReceivedOrder ==
    \A r \in RoomIds : \A c \in Conns :
        \A m1 \in Range(Stored(r)), m2 \in Range(Stored(r)) :
            (FromTwoSessions(m1, m2) /\ Before(inbox[c], m1, m2))
                => Before(Stored(r), m2, m1)

\* C29: two chat messages broadcast to one room by sessions running at the
\* same time are received in the same relative order by every connection
\* that receives both, and are stored in the history in that order.
C29_OneOrderForAll == C29_SameOrderEverywhere /\ C29_StoredInReceivedOrder

\* ---------------------------------------------------------------------------
\* C30
\* ---------------------------------------------------------------------------
\* C30: a connection whose admission created its room (it is sent the code
\* reveal) is replayed no message stored by the sessions of an earlier life
\* of that room id.
C30_CreatorGetsNoEarlierMessage ==
    [][\A c \in Conns :
          (InReveal(c) /\ StartsReplay(c)) =>
              \A i \in 1..Len(sess'[c].history) : ~Replayed(sess'[c].history[i])]_vars

\* ---------------------------------------------------------------------------
\* C31
\* ---------------------------------------------------------------------------
\* the handler of c starts the user_left broadcast of its finally block
LeftNoticeStarts(c) ==
    /\ sess[c].pass.after # "end"
    /\ sess'[c].pc = "send" /\ sess'[c].pass.after = "end"
    /\ sess'[c].pass.message.type = "user_left"

\* the user_left notice of c's handler
OwnLeftNotice(c, f) == f.type = "user_left" /\ f.id[1] = c

\* the join attempt of c was refused: wrong code, room full, user over limit
Rejected(c) == sess[c].close_code \in {4001, 4003, 4004}

\* the user_joined broadcast of c's handler has been through all its sends:
\* the handler is in its receive loop, or the cleanup of that broadcast raises
JoinNoticeBroadcast(c) ==
    \/ InReceiveLoop(c)
    \/ sess[c].pc = "send" /\ sess[c].pass.after = "loop"

\* C31: the handler of a connection broadcasts user_left only after the
\* connection was admitted and its user_joined notice was broadcast, and no
\* more than once; a join refused with 4001, 4003 or 4004 broadcasts none.
C31_LeftNoticeOnlyAfterJoinNotice ==
    [][\A c \in Conns :
          LeftNoticeStarts(c) =>
              /\ ~Rejected(c)
              /\ JoinNoticeBroadcast(c)
              /\ \A t \in Conns : \A i \in 1..Len(inbox[t]) :
                    ~OwnLeftNotice(c, inbox[t][i])]_vars
=============================================================================
